---- MODULE Spec2Model ----
(***************************************************************************)
(* Model of timeline.py: ingestion of the six LNS log files, per-device    *)
(* extraction into one timeline (DeviceTimeline.extract), the sequential   *)
(* pattern detector (DeviceTimeline.check_for_errors) and the summary      *)
(* (DeviceStats).                                                          *)
(*                                                                         *)
(* A pandas frame is a sequence of rows; every row is a record holding its *)
(* index label (idx), its Timestamp and one cell per column.  A cell that  *)
(* pandas holds as None/NaN is "NaN"; fillna('') turns it into "".  Row    *)
(* labels are 0-based as in the source, sequence positions are 1-based.    *)
(***************************************************************************)
EXTENDS Integers, Sequences, FiniteSets, TLC

VARIABLES
    folder,     \* log type -> the files of the log folder matching it (a file is a sequence of lines)
    ingestors,  \* log type -> the ingestor's log table, or None
    devices,    \* main's list of DeviceTimeline objects (their deveui)
    cur,        \* position of main's loop in devices (1-based)
    k,          \* position of extract's current loop in ingestors (1-based)
    pc,         \* where the program is
    timeline,   \* the current device's timeline frame (rows)
    cols,       \* the columns the current device's timeline frame has
    devaddrs,   \* DeviceTimeline.devaddrs (class-level list)
    diids,      \* DeviceTimeline.diids (class-level list)
    pdus,       \* DeviceTimeline.pdus (class-level list)
    ctx,        \* deveui -> the lists extract's metadata pass used for that device
    firstpass,  \* the timeline as it was when extract's first loop ended
    reports,    \* the deveuis whose <deveui>.xlsx has been written
    stats,      \* the summary DeviceStats wrote, or None
    line,       \* the line handed to _parse_data_string
    parsed      \* what _parse_data_string returned

vars == <<folder, ingestors, devices, cur, k, pc, timeline, cols, devaddrs, diids,
          pdus, ctx, firstpass, reports, stats, line, parsed>>

None == "None"
NaN == "NaN"
NaT == 0
NoSrc == <<0, 0>>

\* ---------------------------------------------------------------- bounds
MaxRows == 5
MaxLines == 2
MaxTime == 2
MaxFiles == 2

Times == 1..MaxTime

\* ------------------------------------------------------- event labels
JREQ == "JREQ"
OnAir == "DN: [On-Air]"
SchedJACC == "DN: [Scheduled] JACC"
SchedMAC == "DN: [Scheduled] MAC"
SendingMuxs == "SENDING Muxs..."
UNKNOWN == "UNKNOWN"
UnknownDevAddr == "Unknown DevAddr"
MsgUnknownDevice == "Messages to unknown device (dropped)"

normal_join_note == "Normal Join: LNS carried out the normal join process."
device_not_joined_note == "Device Error: Device tried to join again after successful join process."
gw_missed_dn_jacc == "LNS Error: Gateway scheduled JACC but did not transmit it."

SourceCols == {"GW0", "GW1", "JOINS", "NWKS", "DOOR", "MUXS"}
AllCols == {"Timestamp"} \cup SourceCols \cup {"Notes"}

\* ---------------------------------------------------------------- rows
\* A timeline row as pd.concat(join='outer') builds it from one selected log
\* row: the log row's index label and Timestamp, its Event in column col and
\* NaN in every other column.  src names the log row it was projected from.
ProjectRow(col, r, src) ==
    [idx |-> r.idx, Timestamp |-> r.Timestamp,
     GW0 |-> IF col = "GW0" THEN r.Event ELSE NaN,
     GW1 |-> IF col = "GW1" THEN r.Event ELSE NaN,
     JOINS |-> IF col = "JOINS" THEN r.Event ELSE NaN,
     NWKS |-> IF col = "NWKS" THEN r.Event ELSE NaN,
     DOOR |-> IF col = "DOOR" THEN r.Event ELSE NaN,
     MUXS |-> IF col = "MUXS" THEN r.Event ELSE NaN,
     Notes |-> NaN, src |-> src]

\* The row that .loc[i, 'Notes'] = note appends when label i is not in the
\* index (setting with enlargement): every other cell is missing.
EnlargedRow(i, note) ==
    [idx |-> i, Timestamp |-> NaT, GW0 |-> NaN, GW1 |-> NaN, JOINS |-> NaN,
     NWKS |-> NaN, DOOR |-> NaN, MUXS |-> NaN, Notes |-> note, src |-> NoSrc]

FillCell(c) == IF c = NaN THEN "" ELSE c

FillRow(r) ==
    [r EXCEPT !.GW0 = FillCell(@), !.GW1 = FillCell(@), !.JOINS = FillCell(@),
              !.NWKS = FillCell(@), !.DOOR = FillCell(@), !.MUXS = FillCell(@),
              !.Notes = FillCell(@)]

\* ------------------------------------------------------ frame helpers
RECURSIVE PermsOf(_)
\* Every ordering of the positions in S.
PermsOf(S) ==
    IF S = {} THEN {<< >>}
    ELSE UNION {{<<x>> \o p : p \in PermsOf(S \ {x})} : x \in S}

RECURSIVE OrdersOver(_, _)
\* Every ordering of tl's positions that is non-decreasing in Timestamp over the
\* timestamps ts; rows with a missing Timestamp come last (na_position='last').
OrdersOver(tl, ts) ==
    IF ts = {}
    THEN PermsOf({p \in 1..Len(tl) : tl[p].Timestamp = NaT})
    ELSE LET t == CHOOSE x \in ts : \A y \in ts : x <= y IN
         {a \o b : a \in PermsOf({p \in 1..Len(tl) : tl[p].Timestamp = t}),
                   b \in OrdersOver(tl, ts \ {t})}

\* DataFrame.fillna(''): every missing cell becomes ''.
fillna(tl) == [p \in 1..Len(tl) |-> FillRow(tl[p])]

\* DataFrame.sort_values(by='Timestamp'): the default kind is quicksort, which
\* promises no order among rows of equal Timestamp, so every order is a result.
sort_values(tl) ==
    {[p \in 1..Len(tl) |-> tl[o[p]]]
       : o \in OrdersOver(tl, {tl[p].Timestamp : p \in 1..Len(tl)} \ {NaT})}

\* DataFrame.reset_index(drop=True): the labels become 0..n-1 in row order.
reset_index(tl) == [p \in 1..Len(tl) |-> [tl[p] EXCEPT !.idx = p - 1]]

cleanup_no_sort(tl) == {reset_index(fillna(tl))}

\* DeviceTimeline.cleanup_timeline: the frames it can leave in self.timeline.
cleanup_timeline(tl) == {reset_index(s) : s \in sort_values(fillna(tl))}

\* .loc[a:b]: the rows whose label lies in a..b, both ends included; labels
\* outside the index select nothing.
Loc(tl, a, b) == SelectSeq(tl, LAMBDA r : r.idx >= a /\ r.idx <= b)

HasLabel(tl, i) == \E p \in 1..Len(tl) : tl[p].idx = i

\* .loc[i, 'Notes']
NoteAt(tl, i) == LET p == CHOOSE q \in 1..Len(tl) : tl[q].idx = i IN tl[p].Notes

\* .loc[i, 'Notes'] = note: writes the row labelled i, or appends a row
\* labelled i when the index has no such label.
SetNote(tl, i, note) ==
    IF HasLabel(tl, i)
    THEN [p \in 1..Len(tl) |-> IF tl[p].idx = i THEN [tl[p] EXCEPT !.Notes = note] ELSE tl[p]]
    ELSE Append(tl, EnlargedRow(i, note))

\* ------------------------------------------- three-valued evaluation
\* A Python condition evaluates to True ("T"), to False ("F") or raises ("E":
\* IndexError from .iloc, KeyError from a column the frame does not have).
\* `or` and `and` evaluate their right operand only when the left decides nothing.
Or3(a, b) == IF a = "E" THEN "E" ELSE IF a = "T" THEN "T" ELSE b

And3(a, b) == IF a = "E" THEN "E" ELSE IF a = "F" THEN "F" ELSE b

Not3(a) == IF a = "E" THEN "E" ELSE IF a = "T" THEN "F" ELSE "T"

Cell(r, col) ==
    CASE col = "GW0" -> r.GW0
      [] col = "GW1" -> r.GW1
      [] col = "JOINS" -> r.JOINS
      [] col = "NWKS" -> r.NWKS
      [] col = "DOOR" -> r.DOOR
      [] col = "MUXS" -> r.MUXS
      [] col = "Notes" -> r.Notes

\* tl.iloc[pos][col] == val, pos counted from the end when negative.
IlocEq(tl, cs, pos, col, val) ==
    LET p == IF pos < 0 THEN Len(tl) + pos + 1 ELSE pos + 1 IN
    IF p < 1 \/ p > Len(tl) THEN "E"
    ELSE IF col \notin cs THEN "E"
    ELSE IF Cell(tl[p], col) = val THEN "T" ELSE "F"

\* --------------------------------------------------- pattern detector
\* DeviceTimeline._normal_join_process
normal_join_process(tl, cs) ==
    LET jreq4 == Or3(IlocEq(tl, cs, -4, "GW0", JREQ), IlocEq(tl, cs, -4, "GW1", JREQ))
        gw_got_jreq ==
            IF jreq4 = "E" THEN "E"
            ELSE IF Len(tl) > 4
                 THEN Or3(jreq4, Or3(IlocEq(tl, cs, -5, "GW0", JREQ),
                                     IlocEq(tl, cs, -5, "GW1", JREQ)))
                 ELSE jreq4
        door_sending_muxs == IlocEq(tl, cs, -3, "DOOR", SendingMuxs)
        gw_sent_jacc ==
            Or3(And3(IlocEq(tl, cs, -2, "GW0", SchedJACC), IlocEq(tl, cs, -1, "GW0", OnAir)),
                And3(IlocEq(tl, cs, -2, "GW1", SchedJACC), IlocEq(tl, cs, -1, "GW1", OnAir)))
    IN  IF gw_got_jreq = "E" \/ door_sending_muxs = "E" \/ gw_sent_jacc = "E" THEN "E"
        ELSE And3(gw_got_jreq, And3(door_sending_muxs, gw_sent_jacc))

device_not_joined_no_jreq(tl, cs) ==
    Or3(IlocEq(tl, cs, 0, "GW0", OnAir), IlocEq(tl, cs, 0, "GW1", OnAir))

\* DeviceTimeline._device_not_joined
device_not_joined(tl, cs) ==
    And3(Or3(IlocEq(tl, cs, 0, "GW0", OnAir), IlocEq(tl, cs, 0, "GW1", OnAir)),
         Or3(IlocEq(tl, cs, 1, "GW0", JREQ), IlocEq(tl, cs, 1, "GW1", JREQ)))

missing_on_air_any_gw(tl, cs) ==
    And3(Or3(IlocEq(tl, cs, 0, "GW0", SchedJACC), IlocEq(tl, cs, 0, "GW1", SchedJACC)),
         And3(Not3(IlocEq(tl, cs, 1, "GW0", OnAir)), Not3(IlocEq(tl, cs, 1, "GW1", OnAir))))

\* DeviceTimeline._missing_on_air
missing_on_air(tl, cs) ==
    Or3(And3(Not3(IlocEq(tl, cs, 1, "GW0", OnAir)), IlocEq(tl, cs, 0, "GW0", SchedJACC)),
        And3(Not3(IlocEq(tl, cs, 1, "GW1", OnAir)), IlocEq(tl, cs, 0, "GW1", SchedJACC)))

\* The three steps of one iteration of check_for_errors' loop.  Each takes and
\* returns [tl, raised]; a step after a raise does nothing.
JoinStep(s, cs, i) ==
    IF s.raised \/ i < 3 THEN s
    ELSE LET r == normal_join_process(Loc(s.tl, IF i = 3 THEN i - 3 ELSE i - 4, i), cs) IN
         IF r = "E" THEN [s EXCEPT !.raised = TRUE]
         ELSE IF r = "T" THEN [s EXCEPT !.tl = SetNote(s.tl, i, normal_join_note)]
         ELSE s

DeviceStep(s, cs, i) ==
    IF s.raised \/ NoteAt(s.tl, i - 1) # normal_join_note THEN s
    ELSE LET r == device_not_joined(Loc(s.tl, i - 1, i), cs) IN
         IF r = "E" THEN [s EXCEPT !.raised = TRUE]
         ELSE IF r = "T" THEN [s EXCEPT !.tl = SetNote(s.tl, i, device_not_joined_note)]
         ELSE s

MissedStep(s, cs, i) ==
    IF s.raised \/ ~(i < Len(s.tl)) THEN s
    ELSE LET r == missing_on_air(Loc(s.tl, i - 1, i), cs) IN
         IF r = "E" THEN [s EXCEPT !.raised = TRUE]
         ELSE IF r = "T" THEN [s EXCEPT !.tl = SetNote(s.tl, i, gw_missed_dn_jacc)]
         ELSE s

RECURSIVE CheckLoop(_, _, _, _)
\* for i in range(i, last + 1): the range is fixed when the loop starts.
CheckLoop(s, cs, i, last) ==
    IF i > last \/ s.raised THEN s
    ELSE CheckLoop(MissedStep(DeviceStep(JoinStep(s, cs, i), cs, i), cs, i), cs, i + 1, last)

\* DeviceTimeline.check_for_errors on frame tl with columns cs: the frame it
\* leaves and whether it raised.
check_for_errors(tl, cs) ==
    LET noted == [p \in 1..Len(tl) |-> [tl[p] EXCEPT !.Notes = ""]] IN
    CheckLoop([tl |-> noted, raised |-> FALSE], cs \cup {"Notes"}, 1, Len(tl))

\* ------------------------------------------------------------ ingestion
\* main's correctlogfiles / ingest's allowed_types, in order.
LogTypes == <<"*station-0.log", "*station-1.log", "*joins.log", "*nwks.log", "*door.log", "*muxs.log">>

\* The ingestor class ingest() builds for each log type.
KindOf(t) ==
    CASE t \in {1, 2} -> "gateway"
      [] t = 3 -> "joins"
      [] t = 4 -> "nwks"
      [] t = 5 -> "door"
      [] t = 6 -> "muxs"

\* The timeline column each ingestor's rows go to (new_col).
ColOf(t) ==
    CASE t = 1 -> "GW0"
      [] t = 2 -> "GW1"
      [] t = 3 -> "JOINS"
      [] t = 4 -> "NWKS"
      [] t = 5 -> "DOOR"
      [] t = 6 -> "MUXS"

\* The substrings the parsers look for, per ingestor, in if/elif order.
GwMarkers == <<"UP: ", "DN: [On-Air] ", "DN: [Scheduled] ">>
JoinsMarkers == <<"Join request for unprovisioned device", "Verify of join request failed",
                  "Not accepted (in time)">>
NwksMarkers == <<"Overwriting dninfo (lost dntxed/abandoned dn msg)",
                 "jacc overwrites pending session",
                 "Suppressing sending of empty frame while suppressing FOPtsDn",
                 "ADR blocked (temporarily) by pending DN option",
                 "Spurious LinkADRAns",
                 MsgUnknownDevice>>
DoorMarkers == <<SendingMuxs>>
MuxsMarkers == <<UnknownDevAddr>>

\* The substrings whose rows GatewayLogIngestor drops before parsing.
GwIgnored == {"GPS -- time gps:", "We received a PONG"}

\* GatewayLogIngestor shifts its timestamps by pd.DateOffset(hours=8).
GwOffsetHours == 8

\* A log line, by what the parsers can see of it: its leading timestamp, whether
\* the ingestor's separator splits it (without it Data is NaN, not a string),
\* the substrings it contains, the first device-identifier pattern in it (eui),
\* whether its embedded payload loads (ok) and the payload's keys, the first run
\* of 14+ hex digits (hex), the text after ' - ' (tail) and the numbers after
\* "diid=" (newdiid), "'diid': " (olddiid) and "'DevAddr': " or before "/0x" (addr).
BaseLine ==
    [Timestamp |-> 1, sep |-> TRUE, has |-> {}, eui |-> None, ok |-> TRUE,
     msgtype |-> None, FCnt |-> None, DevEui |-> None, DevAddr |-> None,
     pdu |-> None, seqno |-> None, diid |-> None, hex |-> None, tail |-> None,
     newdiid |-> None, olddiid |-> None, addr |-> None]

\* str.upper() on the msgtype values of the model.
Upper(m) ==
    CASE m = "jreq" -> JREQ
      [] m = "updf" -> "UPDF"
      [] OTHER -> m

\* pdu[:2] == '20'
StartsWith20(h) == h \in {"20A1", "20B2"}

Raise == [raised |-> TRUE, fields |-> << >>]

Return(f) == [raised |-> FALSE, fields |-> f]

\* GatewayLogIngestor._parse_data_string
GatewayParse(l) ==
    IF ~l.sep THEN Raise
    ELSE IF "UP: " \in l.has
    THEN IF ~l.ok THEN Raise
         ELSE Return(<<IF l.msgtype # None THEN Upper(l.msgtype) ELSE None,
                       l.FCnt, l.DevEui, l.DevAddr, l.pdu, None>>)
    ELSE IF "DN: [On-Air] " \in l.has
    THEN IF ~l.ok THEN Raise
         ELSE Return(<<OnAir, None, l.DevEui, None, None, l.seqno>>)
    ELSE IF "DN: [Scheduled] " \in l.has
    THEN IF l.hex = None THEN Raise
         ELSE Return(<<IF StartsWith20(l.hex) THEN SchedJACC ELSE SchedMAC,
                       None, None, None, l.hex, None>>)
    ELSE Return(<<UNKNOWN, None, None, None, None>>)

\* JoinsLogIngestor._parse_data_string
JoinsParse(l) ==
    IF ~l.sep \/ l.eui = None THEN Raise
    ELSE IF JoinsMarkers[1] \in l.has
    THEN IF l.tail = None THEN Raise ELSE Return(<<l.tail, l.eui>>)
    ELSE IF JoinsMarkers[2] \in l.has THEN Return(<<JoinsMarkers[2], l.eui>>)
    ELSE IF JoinsMarkers[3] \in l.has THEN Return(<<JoinsMarkers[3], l.eui>>)
    ELSE Return(<<UNKNOWN, l.eui>>)

\* NwksLogIngestor._parse_data_string
NwksParse(l) ==
    IF ~l.sep \/ l.eui = None THEN Raise
    ELSE IF NwksMarkers[1] \in l.has
    THEN IF l.newdiid = None \/ l.olddiid = None THEN Raise
         ELSE Return(<<NwksMarkers[1], l.eui, None, l.newdiid, l.olddiid>>)
    ELSE IF NwksMarkers[2] \in l.has THEN Return(<<NwksMarkers[2], l.eui, None, None, None>>)
    ELSE IF NwksMarkers[3] \in l.has THEN Return(<<NwksMarkers[3], l.eui, None, None, None>>)
    ELSE IF NwksMarkers[4] \in l.has THEN Return(<<NwksMarkers[4], l.eui, None, None, None>>)
    ELSE IF NwksMarkers[5] \in l.has THEN Return(<<NwksMarkers[5], l.eui, None, None, None>>)
    ELSE IF NwksMarkers[6] \in l.has
    THEN IF l.addr = None THEN Raise
         ELSE Return(<<NwksMarkers[6], l.eui, l.addr, None, None>>)
    ELSE Return(<<UNKNOWN, l.eui, None, None, None>>)

\* DoorLogIngestor._parse_data_string
DoorParse(l) ==
    IF ~l.sep THEN Raise
    ELSE IF SendingMuxs \in l.has
    THEN IF ~l.ok THEN Raise
         ELSE Return(<<SendingMuxs, l.DevEui, l.pdu, l.diid>>)
    ELSE IF l.eui = None THEN Raise
    ELSE Return(<<UNKNOWN, l.eui, None, None>>)

\* MuxsLogIngestor._parse_data_string
MuxsParse(l) ==
    IF ~l.sep THEN Raise
    ELSE IF UnknownDevAddr \in l.has THEN Return(<<UnknownDevAddr, l.addr>>)
    ELSE Return(<<UNKNOWN, None>>)

\* The _parse_data_string of the ingestor of kind kd.
parse_data_string(kd, l) ==
    CASE kd = "gateway" -> GatewayParse(l)
      [] kd = "joins" -> JoinsParse(l)
      [] kd = "nwks" -> NwksParse(l)
      [] kd = "door" -> DoorParse(l)
      [] kd = "muxs" -> MuxsParse(l)

\* The columns each ingestor assigns the parsed fields to.
TableColumns(kd) ==
    CASE kd = "gateway" -> <<"Event", "FCnt", "DevEui", "DevAddr", "pdu", "seqno">>
      [] kd = "joins" -> <<"Event", "DevEui">>
      [] kd = "nwks" -> <<"Event", "DevEui", "DevAddr", "NewDiid", "OldDiid">>
      [] kd = "door" -> <<"Event", "DevEui", "pdu", "diid">>
      [] kd = "muxs" -> <<"Event", "DevAddr">>

\* The value of column name in a parsed row; a row shorter than the table is
\* padded with missing values.
Field(kd, f, name) ==
    LET c == TableColumns(kd)
        at == {p \in 1..Len(c) : c[p] = name}
    IN  IF at = {} THEN None
        ELSE LET p == CHOOSE q \in at : TRUE IN IF p <= Len(f) THEN f[p] ELSE None

\* One row of an ingestor's log table.
LogRow(t, p, l, f) ==
    LET kd == KindOf(t) IN
    [idx |-> p - 1,
     Timestamp |-> IF kd = "gateway" THEN l.Timestamp - GwOffsetHours ELSE l.Timestamp,
     Event |-> f[1],
     DevEui |-> Field(kd, f, "DevEui"), DevAddr |-> Field(kd, f, "DevAddr"),
     pdu |-> Field(kd, f, "pdu"), seqno |-> Field(kd, f, "seqno"),
     NewDiid |-> Field(kd, f, "NewDiid"), OldDiid |-> Field(kd, f, "OldDiid"),
     diid |-> Field(kd, f, "diid")]

NoIngestor == [present |-> FALSE, log |-> << >>]

\* An ingestor's __init__ on the data lines of one file (the lines after the
\* first, which read_csv(header=0) takes as the header): the rows the gateway
\* ingestor ignores are dropped with their labels, every other line is parsed.
\* It raises when a line's parse raises and when no parsed row has as many
\* fields as the table has columns.  What assigning the parse of no line at
\* all does depends on the pandas build: emptyRaises says whether it raises.
IngestFile(t, file, emptyRaises) ==
    LET kd == KindOf(t)
        kept == {p \in 1..Len(file) : ~(kd = "gateway" /\ file[p].has \cap GwIgnored # {})}
        res == [p \in kept |-> parse_data_string(kd, file[p])]
        keptSeq == SelectSeq([p \in 1..Len(file) |-> p], LAMBDA p : p \in kept)
    IN  IF \E p \in kept : res[p].raised THEN [raised |-> TRUE, ing |-> NoIngestor]
        ELSE IF kept = {}
        THEN [raised |-> emptyRaises, ing |-> IF emptyRaises THEN NoIngestor
                                                ELSE [present |-> TRUE, log |-> << >>]]
        ELSE IF \A p \in kept : Len(res[p].fields) # Len(TableColumns(kd))
        THEN [raised |-> TRUE, ing |-> NoIngestor]
        ELSE [raised |-> FALSE,
              ing |-> [present |-> TRUE,
                       log |-> [q \in 1..Len(keptSeq) |->
                                  LogRow(t, keptSeq[q], file[keptSeq[q]], res[keptSeq[q]].fields)]]]

ingest_first_file(t, logs, emptyRaises) ==
    IF Len(logs) >= 1 THEN IngestFile(t, logs[1], emptyRaises)
    ELSE [raised |-> FALSE, ing |-> NoIngestor]

\* ingest(logtype, logfolder), logs being the files logfolder.glob(logtype) finds.
ingest(t, logs, emptyRaises) ==
    IF Len(logs) > 1 THEN [raised |-> TRUE, ing |-> NoIngestor]
    ELSE IF Len(logs) = 1 THEN IngestFile(t, logs[1], emptyRaises)
    ELSE [raised |-> FALSE, ing |-> NoIngestor]

\* ----------------------------------------------------------- extraction
\* self.timeline[new_col] = None
SetColumnNone(tl, col) ==
    [p \in 1..Len(tl) |->
        CASE col = "GW0" -> [tl[p] EXCEPT !.GW0 = NaN]
          [] col = "GW1" -> [tl[p] EXCEPT !.GW1 = NaN]
          [] col = "JOINS" -> [tl[p] EXCEPT !.JOINS = NaN]
          [] col = "NWKS" -> [tl[p] EXCEPT !.NWKS = NaN]
          [] col = "DOOR" -> [tl[p] EXCEPT !.DOOR = NaN]
          [] col = "MUXS" -> [tl[p] EXCEPT !.MUXS = NaN]]

\* pd.concat([self.timeline, relevant[['Timestamp', new_col]]], join='outer')
Concat(tl, t, relevant) ==
    tl \o [p \in 1..Len(relevant) |-> ProjectRow(ColOf(t), relevant[p], <<t, relevant[p].idx>>)]

\* The values of a column of the selected rows that are not missing, as a list.
NotNa(relevant, get(_)) ==
    LET sel == SelectSeq(relevant, LAMBDA r : get(r) # None) IN
    [p \in 1..Len(sel) |-> get(sel[p])]

InList(x, lst) == \E p \in 1..Len(lst) : lst[p] = x

\* The state one merge step works on and leaves: the frame, its columns and the
\* three identity lists.
St(tl, cs, da, di, pd) == [tl |-> tl, cols |-> cs, devaddrs |-> da, diids |-> di, pdus |-> pd]

\* _extract_from_gateway, _extract_from_joins and the merge of _extract_from_nwks
\* and _extract_from_door: the rows whose DevEui is the device's.
ByDevEui(s, t, log, deveui) ==
    LET relevant == SelectSeq(log, LAMBDA r : r.DevEui = deveui)
        merged == Concat(SetColumnNone(s.tl, ColOf(t)), t, relevant)
    IN  {[st |-> [s EXCEPT !.tl = c, !.cols = @ \cup {"Timestamp", ColOf(t)}],
          relevant |-> relevant] : c \in cleanup_timeline(merged)}

extract_from_gateway(s, t, log, deveui) == {x.st : x \in ByDevEui(s, t, log, deveui)}

extract_from_joins(s, t, log, deveui) == {x.st : x \in ByDevEui(s, t, log, deveui)}

extract_from_nwks(s, t, log, deveui) ==
    {[x.st EXCEPT !.devaddrs = @ \o NotNa(x.relevant, LAMBDA r : r.DevAddr),
                  !.diids = @ \o NotNa(x.relevant, LAMBDA r : r.NewDiid)
                              \o NotNa(x.relevant, LAMBDA r : r.OldDiid)]
       : x \in ByDevEui(s, t, log, deveui)}

extract_from_door(s, t, log, deveui) ==
    {[x.st EXCEPT !.pdus = @ \o NotNa(x.relevant, LAMBDA r : r.pdu),
                  !.diids = @ \o NotNa(x.relevant, LAMBDA r : r.diid)]
       : x \in ByDevEui(s, t, log, deveui)}

\* _extract_from_muxs: found starts as DevAddr > -1e15, true of every row that
\* has a DevAddr, and the per-address checks are or-ed onto it.
extract_from_muxs(s, t, log, deveui) ==
    LET withcol == [s EXCEPT !.tl = SetColumnNone(s.tl, ColOf(t)), !.cols = @ \cup {ColOf(t)}] IN
    IF s.devaddrs = << >> THEN {withcol}
    ELSE LET relevant == SelectSeq(log, LAMBDA r : r.DevAddr # None \/ InList(r.DevAddr, s.devaddrs)) IN
         {[withcol EXCEPT !.tl = c, !.cols = @ \cup {"Timestamp"}]
            : c \in cleanup_timeline(Concat(withcol.tl, t, relevant))}

\* _extract_from_gateway_meta
extract_from_gateway_meta(s, t, log, deveui) ==
    LET relevant == SelectSeq(log, LAMBDA r : InList(r.DevAddr, s.devaddrs) \/ InList(r.pdu, s.pdus)) IN
    {[s EXCEPT !.tl = c, !.cols = @ \cup {"Timestamp", ColOf(t)}]
       : c \in cleanup_timeline(Concat(s.tl, t, relevant))}

\* _extract_from_muxs_meta
extract_from_muxs_meta(s, t, log, deveui) ==
    LET relevant == SelectSeq(log, LAMBDA r : InList(r.DevAddr, s.devaddrs)) IN
    {[s EXCEPT !.tl = c, !.cols = @ \cup {"Timestamp", ColOf(t)}]
       : c \in cleanup_timeline(Concat(s.tl, t, relevant))}

\* One iteration of extract's first loop: the isinstance dispatch on ingestor t.
\* An ingestor that is None matches no class.
FirstLoopStep(s, t, ing, deveui) ==
    IF ~ing.present THEN {s}
    ELSE CASE KindOf(t) = "gateway" -> extract_from_gateway(s, t, ing.log, deveui)
           [] KindOf(t) = "joins" -> extract_from_joins(s, t, ing.log, deveui)
           [] KindOf(t) = "nwks" -> extract_from_nwks(s, t, ing.log, deveui)
           [] KindOf(t) = "door" -> extract_from_door(s, t, ing.log, deveui)
           [] KindOf(t) = "muxs" -> extract_from_muxs(s, t, ing.log, deveui)

\* One iteration of extract's second loop.
SecondLoopStep(s, t, ing, deveui) ==
    IF ~ing.present THEN {s}
    ELSE CASE KindOf(t) = "gateway" -> extract_from_gateway_meta(s, t, ing.log, deveui)
           [] KindOf(t) = "muxs" -> extract_from_muxs_meta(s, t, ing.log, deveui)
           [] OTHER -> {s}

\* ------------------------------------------------------------ summary
\* Series.str.contains(stat) on a Notes cell.
NoteContains(note, stat) ==
    \/ stat = "Normal Join" /\ note = normal_join_note
    \/ stat = "Device Error" /\ note = device_not_joined_note
    \/ stat = "LNS Error" /\ note = gw_missed_dn_jacc

\* device.timeline[found].shape[0]
CountNotes(tl, stat) == Cardinality({p \in 1..Len(tl) : NoteContains(tl[p].Notes, stat)})

\* One row of DeviceStats' frame.
StatsRow(deveui, tl) ==
    [deveui |-> deveui, normal |-> CountNotes(tl, "Normal Join"),
     device |-> CountNotes(tl, "Device Error"), lns |-> CountNotes(tl, "LNS Error")]

NoStats == [written |-> FALSE, rows |-> {}]

\* ------------------------------------------------------------ actions
HasEnlargedRow(tl) == \E p \in 1..Len(tl) : tl[p].Timestamp = NaT

\* The class-level frame every DeviceTimeline starts from.
EmptyFrameCols == {"Timestamp"}

\* main: the six ingest calls of Pool.starmap; an exception in any of them is
\* raised in main.  Then the device list is built.
Ingest ==
    /\ pc = "ingest"
    /\ \E emptyRaises \in BOOLEAN :
         LET res == [t \in 1..Len(LogTypes) |-> ingest(t, folder[t], emptyRaises)] IN
         IF \E t \in 1..Len(LogTypes) : res[t].raised
         THEN /\ pc' = "aborted"
              /\ UNCHANGED ingestors
         ELSE /\ ingestors' = [t \in 1..Len(LogTypes) |-> res[t].ing]
              /\ pc' = IF devices = << >> THEN "stats" ELSE "extract1"
    /\ UNCHANGED <<folder, devices, cur, k, timeline, cols, devaddrs, diids, pdus, ctx,
                   firstpass, reports, stats, line, parsed>>

\* extract: one iteration of the loop "Extract data based on DevEui".
Extract1 ==
    /\ pc = "extract1"
    /\ \E s \in FirstLoopStep(St(timeline, cols, devaddrs, diids, pdus), k, ingestors[k], devices[cur]) :
         /\ timeline' = s.tl
         /\ cols' = s.cols
         /\ devaddrs' = s.devaddrs
         /\ diids' = s.diids
         /\ pdus' = s.pdus
         /\ IF k < Len(LogTypes)
            THEN /\ k' = k + 1
                 /\ UNCHANGED <<pc, firstpass, ctx>>
            ELSE /\ k' = 1
                 /\ pc' = "extract2"
                 /\ firstpass' = s.tl
                 /\ ctx' = ctx \cup {[deveui |-> devices[cur], devaddrs |-> s.devaddrs,
                                      diids |-> s.diids, pdus |-> s.pdus]}
    /\ UNCHANGED <<folder, ingestors, devices, cur, reports, stats, line, parsed>>

\* extract: one iteration of the loop "Extract based on metadata".
Extract2 ==
    /\ pc = "extract2"
    /\ \E s \in SecondLoopStep(St(timeline, cols, devaddrs, diids, pdus), k, ingestors[k], devices[cur]) :
         /\ timeline' = s.tl
         /\ cols' = s.cols
    /\ IF k < Len(LogTypes)
       THEN /\ k' = k + 1
            /\ pc' = pc
       ELSE /\ k' = 1
            /\ pc' = "extract_end"
    /\ UNCHANGED <<folder, ingestors, devices, cur, devaddrs, diids, pdus, ctx, firstpass,
                   reports, stats, line, parsed>>

\* extract: its closing self.cleanup_timeline().
ExtractEnd ==
    /\ pc = "extract_end"
    /\ timeline' \in cleanup_timeline(timeline)
    /\ pc' = "check"
    /\ UNCHANGED <<folder, ingestors, devices, cur, k, cols, devaddrs, diids, pdus, ctx,
                   firstpass, reports, stats, line, parsed>>

\* device.check_for_errors(); an exception ends main.
CheckForErrors ==
    /\ pc = "check"
    /\ LET r == check_for_errors(timeline, cols) IN
         /\ timeline' = r.tl
         /\ pc' = IF r.raised THEN "raised" ELSE "to_xlsx"
    /\ cols' = cols \cup {"Notes"}
    /\ UNCHANGED <<folder, ingestors, devices, cur, k, devaddrs, diids, pdus, ctx,
                   firstpass, reports, stats, line, parsed>>

\* device.to_xlsx(), then main's loop moves to the next device, whose timeline
\* starts from the class-level frame.  fillna('') leaves '' in the Timestamp of an
\* enlarged row; whether sorting that column then raises depends on the pandas
\* build, so both are outcomes.
ToXlsx ==
    /\ pc = "to_xlsx"
    /\ \/ /\ HasEnlargedRow(timeline)
          /\ pc' = "raised"
          /\ UNCHANGED <<timeline, cols, cur, reports>>
       \/ \E c \in cleanup_timeline(timeline) :
            /\ reports' = reports \cup {StatsRow(devices[cur], c)}
            /\ IF cur < Len(devices)
               THEN /\ cur' = cur + 1
                    /\ timeline' = << >>
                    /\ cols' = EmptyFrameCols
                    /\ pc' = "extract1"
               ELSE /\ pc' = "stats"
                    /\ timeline' = c
                    /\ UNCHANGED <<cur, cols>>
    /\ UNCHANGED <<folder, ingestors, devices, k, devaddrs, diids, pdus, ctx, firstpass,
                   stats, line, parsed>>

\* DeviceStats(devices): the frame has one row per device; the file name is
\* taken from devices[0], which an empty list does not have.
Stats ==
    /\ pc = "stats"
    /\ IF devices = << >>
       THEN /\ pc' = "raised"
            /\ UNCHANGED stats
       ELSE /\ stats' = [written |-> TRUE, rows |-> reports]
            /\ pc' = "done"
    /\ UNCHANGED <<folder, ingestors, devices, cur, k, timeline, cols, devaddrs, diids, pdus,
                   ctx, firstpass, reports, line, parsed>>

\* One call of an ingestor's _parse_data_string.
Parse ==
    /\ pc = "parse"
    /\ parsed' = parse_data_string(line.kind, line.data)
    /\ pc' = "parsed"
    /\ UNCHANGED <<folder, ingestors, devices, cur, k, timeline, cols, devaddrs, diids, pdus,
                   ctx, firstpass, reports, stats, line>>

\* ------------------------------------------------------------- inputs
D1 == "D1"
D2 == "D2"

NoLine == [kind |-> "gateway", data |-> BaseLine]
NoParse == [raised |-> FALSE, fields |-> << >>]

\* Log lines of the shapes the deployment writes, for the devices D1 and D2, the
\* session addresses 1001 and 1002 and the join-accept pdu 20A1.
GwLines ==
    {[BaseLine EXCEPT !.has = {"UP: "}, !.msgtype = "jreq", !.DevEui = D1],
     [BaseLine EXCEPT !.has = {"UP: "}, !.msgtype = "updf", !.DevEui = D1, !.DevAddr = "1001"],
     [BaseLine EXCEPT !.has = {"DN: [Scheduled] "}, !.hex = "20A1"],
     [BaseLine EXCEPT !.has = {"DN: [On-Air] "}, !.DevEui = D1, !.seqno = "7"]}

Gw0OnlyLines == {[BaseLine EXCEPT !.has = {"UP: "}, !.msgtype = "jreq", !.DevEui = D2]}

JoinsLines == {[BaseLine EXCEPT !.eui = D1]}

NwksLines == {[BaseLine EXCEPT !.has = {MsgUnknownDevice}, !.eui = D1, !.addr = "1001"]}

DoorLines == {[BaseLine EXCEPT !.has = {SendingMuxs}, !.DevEui = D1, !.pdu = "20A1", !.diid = "7"]}

MuxsLines ==
    {[BaseLine EXCEPT !.has = {UnknownDevAddr}, !.addr = "1001"],
     [BaseLine EXCEPT !.has = {UnknownDevAddr}, !.addr = "1002"]}

LinesOfType(t) ==
    CASE t = 1 -> GwLines \cup Gw0OnlyLines
      [] t = 2 -> GwLines
      [] t = 3 -> JoinsLines
      [] t = 4 -> NwksLines
      [] t = 5 -> DoorLines
      [] t = 6 -> MuxsLines

\* A line as written at time ts; the gateways' clocks run GwOffsetHours ahead.
At(t, l, ts) ==
    [l EXCEPT !.Timestamp = IF KindOf(t) = "gateway" THEN ts + GwOffsetHours ELSE ts]

TypedLines ==
    UNION {{[t |-> t, data |-> At(t, l, ts)] : l \in LinesOfType(t), ts \in Times}
             : t \in 1..Len(LogTypes)}

\* The lines of ls that belong to log type t, in order.
FileOf(ls, t) ==
    LET mine == SelectSeq(ls, LAMBDA x : x.t = t) IN [p \in 1..Len(mine) |-> mine[p].data]

Idle ==
    /\ ingestors = [t \in 1..Len(LogTypes) |-> NoIngestor]
    /\ cur = 1
    /\ k = 1
    /\ timeline = << >>
    /\ cols = EmptyFrameCols
    /\ devaddrs = << >>
    /\ diids = << >>
    /\ pdus = << >>
    /\ ctx = {}
    /\ firstpass = << >>
    /\ reports = {}
    /\ stats = NoStats
    /\ line = NoLine
    /\ parsed = NoParse

\* One file of every log type, at most MaxLines lines in all, and two devices
\* to analyse.
InitPipeline ==
    /\ \E n \in 0..MaxLines : \E ls \in [1..n -> TypedLines] :
         /\ \A p \in 1..(n - 1) : ls[p].t <= ls[p + 1].t
         /\ folder = [t \in 1..Len(LogTypes) |-> <<FileOf(ls, t)>>]
    /\ devices = <<D1, D2>>
    /\ pc = "ingest"
    /\ Idle

\* The join of D1 as the deployment logs it: JREQ at 1 on gateway 0, SENDING
\* Muxs at 2, the scheduled JACC at 3 and its On-Air at 4; everything else is
\* about D2.
ScenarioFile(t) ==
    CASE t = 1 -> <<At(1, [BaseLine EXCEPT !.has = {"UP: "}, !.msgtype = "jreq", !.DevEui = D1], 1),
                    At(1, [BaseLine EXCEPT !.has = {"DN: [Scheduled] "}, !.hex = "20A1"], 3),
                    At(1, [BaseLine EXCEPT !.has = {"DN: [On-Air] "}, !.DevEui = D1, !.seqno = "7"], 4)>>
      [] t = 2 -> <<At(2, [BaseLine EXCEPT !.has = {"UP: "}, !.msgtype = "jreq", !.DevEui = D2], 1)>>
      [] t = 3 -> <<At(3, [BaseLine EXCEPT !.eui = D2], 1)>>
      [] t = 4 -> <<At(4, [BaseLine EXCEPT !.has = {MsgUnknownDevice}, !.eui = D2, !.addr = "1002"], 2)>>
      [] t = 5 -> <<At(5, [BaseLine EXCEPT !.has = {SendingMuxs}, !.DevEui = D1, !.pdu = "20A1", !.diid = "7"], 2)>>
      [] t = 6 -> <<At(6, [BaseLine EXCEPT !.has = {UnknownDevAddr}, !.addr = "1002"], 3)>>

\* Any number of files up to MaxFiles matching each log type, and none, one or
\* two devices selected.
InitMain ==
    /\ \E cnt \in [1..Len(LogTypes) -> 0..MaxFiles] :
         folder = [t \in 1..Len(LogTypes) |-> [p \in 1..cnt[t] |-> ScenarioFile(t)]]
    /\ devices \in {<< >>, <<D1>>, <<D1, D2>>}
    /\ pc = "ingest"
    /\ Idle

\* The rows a merged timeline is made of: one source column filled per row.
RowKinds ==
    {<<1, JREQ>>, <<1, SchedJACC>>, <<1, OnAir>>,
     <<2, JREQ>>, <<2, SchedJACC>>, <<2, OnAir>>,
     <<5, SendingMuxs>>, <<4, UNKNOWN>>}

\* The timeline extract leaves for rows of the kinds f[1], f[2], ... logged at
\* the times 1, 2, ...: sorted, labelled 0..n-1, no cell missing.
MergedTimeline(f) ==
    [p \in 1..Len(f) |->
        FillRow(ProjectRow(ColOf(f[p][1]), [idx |-> p - 1, Timestamp |-> p, Event |-> f[p][2]],
                           <<f[p][1], p - 1>>))]

\* One device whose extract has just returned a timeline of at most MaxRows rows
\* merged from all six logs.
InitDetect ==
    /\ \E n \in 0..MaxRows : \E f \in [1..n -> RowKinds] : timeline = MergedTimeline(f)
    /\ cols = {"Timestamp"} \cup SourceCols
    /\ folder = [t \in 1..Len(LogTypes) |-> << >>]
    /\ ingestors = [t \in 1..Len(LogTypes) |-> [present |-> TRUE, log |-> << >>]]
    /\ devices = <<D1>>
    /\ cur = 1
    /\ k = 1
    /\ pc = "check"
    /\ devaddrs = << >>
    /\ diids = << >>
    /\ pdus = << >>
    /\ ctx = {}
    /\ firstpass = << >>
    /\ reports = {}
    /\ stats = NoStats
    /\ line = NoLine
    /\ parsed = NoParse

\* The lines handed to the parsers: every combination of what a parser looks at.
GatewayInputs ==
    {[BaseLine EXCEPT !.sep = sp, !.has = h, !.ok = o, !.msgtype = m, !.DevEui = e, !.hex = x]
       : sp \in BOOLEAN, h \in SUBSET {GwMarkers[1], GwMarkers[2], GwMarkers[3]}, o \in BOOLEAN,
         m \in {None, "jreq"}, e \in {None, D1}, x \in {None, "20A1", "60C3"}}

JoinsInputs ==
    {[BaseLine EXCEPT !.sep = sp, !.has = h, !.eui = e, !.tail = tl]
       : sp \in BOOLEAN, h \in SUBSET {JoinsMarkers[1], JoinsMarkers[2], JoinsMarkers[3]},
         e \in {None, D1}, tl \in {None, "Join request for unprovisioned device"}}

NwksInputs ==
    {[BaseLine EXCEPT !.sep = sp, !.has = h, !.eui = e, !.newdiid = nd, !.olddiid = od, !.addr = a]
       : sp \in BOOLEAN, h \in SUBSET {NwksMarkers[1], NwksMarkers[2], NwksMarkers[6]},
         e \in {None, D1}, nd \in {None, "8"}, od \in {None, "7"}, a \in {None, "1001"}}

DoorInputs ==
    {[BaseLine EXCEPT !.sep = sp, !.has = h, !.ok = o, !.eui = e, !.DevEui = e, !.pdu = x]
       : sp \in BOOLEAN, h \in SUBSET {SendingMuxs}, o \in BOOLEAN, e \in {None, D1},
         x \in {None, "20A1"}}

MuxsInputs ==
    {[BaseLine EXCEPT !.sep = sp, !.has = h, !.addr = a]
       : sp \in BOOLEAN, h \in SUBSET {UnknownDevAddr}, a \in {None, "1001"}}

ParseInputs ==
    {[kind |-> "gateway", data |-> l] : l \in GatewayInputs}
    \cup {[kind |-> "joins", data |-> l] : l \in JoinsInputs}
    \cup {[kind |-> "nwks", data |-> l] : l \in NwksInputs}
    \cup {[kind |-> "door", data |-> l] : l \in DoorInputs}
    \cup {[kind |-> "muxs", data |-> l] : l \in MuxsInputs}

\* A line without the separator has no Data string, so nothing can be found in it.
WellFormedInput(x) == x.data.sep \/ x.data = [BaseLine EXCEPT !.sep = FALSE]

InitParse ==
    /\ line \in {x \in ParseInputs : WellFormedInput(x)}
    /\ parsed = NoParse
    /\ pc = "parse"
    /\ folder = [t \in 1..Len(LogTypes) |-> << >>]
    /\ devices = << >>
    /\ ingestors = [t \in 1..Len(LogTypes) |-> NoIngestor]
    /\ cur = 1
    /\ k = 1
    /\ timeline = << >>
    /\ cols = EmptyFrameCols
    /\ devaddrs = << >>
    /\ diids = << >>
    /\ pdus = << >>
    /\ ctx = {}
    /\ firstpass = << >>
    /\ reports = {}
    /\ stats = NoStats

\* ------------------------------------------------------ specifications
Next == Ingest \/ Extract1 \/ Extract2 \/ ExtractEnd \/ CheckForErrors \/ ToXlsx \/ Stats

\* main on one file per log type.
Spec == InitPipeline /\ [][Next]_vars

\* main on any file set and device selection.
SpecMain == InitMain /\ [][Next]_vars

\* check_for_errors on the timeline one device's extract has returned.
SpecDetect == InitDetect /\ [][CheckForErrors]_vars

\* The parsers, one call each.
SpecParse == InitParse /\ [][Parse]_vars

\* ----------------------------------------------------------- properties
\* check_for_errors has returned.
Checked == pc = "to_xlsx"

Positions == 1..Len(timeline)

Gateways == {"GW0", "GW1"}

IsMergedRow(r) == r.src # NoSrc

ShowsOnGateway(r, ev) == \E g \in Gateways : Cell(r, g) = ev

\* The join signature of the window ending at position p: On-Air at p and
\* Scheduled JACC at p-1 on one gateway column, SENDING Muxs in DOOR at p-2,
\* JREQ on a gateway at p-3, or at p-4 when there is such a row.
JoinSignature(p) ==
    /\ p >= 4
    /\ \E g \in Gateways : /\ Cell(timeline[p], g) = OnAir
                           /\ Cell(timeline[p - 1], g) = SchedJACC
    /\ timeline[p - 2].DOOR = SendingMuxs
    /\ \/ ShowsOnGateway(timeline[p - 3], JREQ)
       \/ p >= 5 /\ ShowsOnGateway(timeline[p - 4], JREQ)

\* C1: after check_for_errors a row carries the Normal Join note if and only if
\* it is a row of the merged timeline and the window ending at it matches the
\* join signature; no other row, and no row that was not merged, carries it.
C1_NormalJoinIff ==
    Checked =>
        \A p \in Positions :
            timeline[p].Notes = normal_join_note <=> (IsMergedRow(timeline[p]) /\ JoinSignature(p))

C3_DeviceError ==
    Checked =>
        /\ \A p \in Positions :
             timeline[p].Notes = device_not_joined_note =>
                 /\ p >= 2
                 /\ timeline[p - 1].Notes = normal_join_note
                 /\ ShowsOnGateway(timeline[p - 1], OnAir)
                 /\ ShowsOnGateway(timeline[p], JREQ)
        /\ \A p \in Positions :
             (p >= 2 /\ timeline[p - 1].Notes = normal_join_note /\ ShowsOnGateway(timeline[p], JREQ))
                 => timeline[p].Notes = device_not_joined_note

\* JREQ, SENDING Muxs, Scheduled JACC, On-Air, JREQ: the last row is annotated
\* Device Error.
C3_Witness ==
    /\ Checked
    /\ Len(timeline) = 5
    /\ timeline[1].GW0 = JREQ
    /\ timeline[2].DOOR = SendingMuxs
    /\ timeline[3].GW0 = SchedJACC
    /\ timeline[4].GW0 = OnAir
    /\ timeline[4].Notes = normal_join_note
    /\ timeline[5].GW0 = JREQ
    /\ timeline[5].Notes = device_not_joined_note

\* The merged rows are GW0 JREQ, DOOR SENDING Muxs, GW0 Scheduled JACC, GW0 On-Air.
IsFourRowJoin ==
    LET m == SelectSeq(timeline, IsMergedRow) IN
    /\ Len(m) = 4
    /\ m[1].GW0 = JREQ
    /\ m[2].DOOR = SendingMuxs
    /\ m[3].GW0 = SchedJACC
    /\ m[4].GW0 = OnAir

\* C7: check_for_errors on the four rows GW0 JREQ, DOOR SENDING Muxs, GW0
\* Scheduled JACC, GW0 On-Air leaves four rows, the last one annotated Normal
\* Join and no other row carrying that note.
C7_FourRowJoin ==
    (Checked /\ IsFourRowJoin) =>
        /\ Len(timeline) = 4
        /\ \A p \in Positions : timeline[p].Notes = normal_join_note <=> p = 4

\* extract has returned.
Extracted == pc = "check"

Elems(lst) == {lst[p] : p \in 1..Len(lst)}

\* C4: when extract returns, every row its first loop selected is still in the
\* timeline and no log row appears in the timeline more than once.
C4_MetaPassMonotonic ==
    Extracted =>
        /\ \A p \in 1..Len(firstpass) : \E q \in Positions : timeline[q].src = firstpass[p].src
        /\ \A p, q \in Positions : p # q => timeline[p].src # timeline[q].src

\* C5: the identity lists used for a device hold only values of network-session
\* and forwarding rows whose DevEui is that device's.
C5_ContextIsTheDevices ==
    \A c \in ctx :
        /\ \A a \in Elems(c.devaddrs) :
             \E r \in Elems(ingestors[4].log) : r.DevEui = c.deveui /\ r.DevAddr = a
        /\ \A x \in Elems(c.pdus) :
             \E r \in Elems(ingestors[5].log) : r.DevEui = c.deveui /\ r.pdu = x
        /\ \A d \in Elems(c.diids) :
             \/ \E r \in Elems(ingestors[4].log) : r.DevEui = c.deveui /\ d \in {r.NewDiid, r.OldDiid}
             \/ \E r \in Elems(ingestors[5].log) : r.DevEui = c.deveui /\ r.diid = d

\* extract is running, after any of its merge steps, or has returned.
InExtract == pc \in {"extract1", "extract2", "extract_end", "check"}

\* C6: after every merge step of extract and when extract returns, the timeline
\* is sorted non-decreasing by Timestamp and its index is exactly 0..n-1.
C6_SortedDense ==
    InExtract =>
        /\ \A p \in Positions : timeline[p].idx = p - 1
        /\ \A p \in Positions : p < Len(timeline) => timeline[p].Timestamp <= timeline[p + 1].Timestamp

\* A row merged from a later log sits before a row merged from an earlier log,
\* because it is older.
C6_Witness ==
    /\ Extracted
    /\ \E p, q \in Positions :
         /\ p < q
         /\ timeline[p].src[1] > timeline[q].src[1]
         /\ timeline[p].Timestamp < timeline[q].Timestamp

MarkersOf(kd) ==
    CASE kd = "gateway" -> GwMarkers
      [] kd = "joins" -> JoinsMarkers
      [] kd = "nwks" -> NwksMarkers
      [] kd = "door" -> DoorMarkers
      [] kd = "muxs" -> MuxsMarkers

\* The line contains none of the substrings its parser recognises.
NoKnownShape(x) == x.data.has \cap Elems(MarkersOf(x.kind)) = {}

\* C8: for a line that matches no known payload shape, _parse_data_string
\* returns, does not raise, an event labelled UNKNOWN with as many fields as the
\* ingestor's table has columns.
C8_UnknownNeverRaises ==
    (pc = "parsed" /\ NoKnownShape(line)) =>
        /\ ~parsed.raised
        /\ Len(parsed.fields) = Len(TableColumns(line.kind))
        /\ parsed.fields[1] = UNKNOWN

Ambiguous == \E t \in 1..Len(LogTypes) : Len(folder[t]) > 1

\* C9: when more than one file matches a log type, main never gets past ingest:
\* no device is extracted, checked or reported and no summary is written.
C9_AmbiguousAborts ==
    Ambiguous =>
        /\ pc \in {"ingest", "aborted"}
        /\ reports = {}
        /\ ctx = {}
        /\ ~stats.written

\* Two files match a log type, devices are selected, and main has aborted.
C9_Witness ==
    /\ Ambiguous
    /\ devices # << >>
    /\ \A t \in 1..Len(LogTypes) : Len(folder[t]) >= 1
    /\ pc = "aborted"

\* C10: with no device selected, DeviceStats completes and writes a summary of
\* zero rows.
C10_EmptyBatch ==
    (devices = << >> /\ pc \in {"done", "raised"}) =>
        /\ pc = "done"
        /\ stats.written
        /\ stats.rows = {}

\* The row of log type t that timeline row r was merged from.
SourceRow(r) ==
    CHOOSE l \in Elems(ingestors[r.src[1]].log) : l.idx = r.src[2]

IsMuxsRow(r) == IsMergedRow(r) /\ ColOf(r.src[1]) = "MUXS"

\* C11: when extract returns, every MUXS row of the timeline was merged from a
\* multiplexer log row whose DevAddr is in the device's devaddrs; with an empty
\* devaddrs there is no MUXS row.
C11_MuxsOnlyDevaddrs ==
    Extracted =>
        \A p \in Positions :
            IsMuxsRow(timeline[p]) => InList(SourceRow(timeline[p]).DevAddr, devaddrs)

\* check_for_errors has returned or has raised.
CheckEnded == pc \in {"to_xlsx", "raised"}

\* The number of rows extract had merged into the timeline.
MergedRows == Len(SelectSeq(timeline, IsMergedRow))

\* C12: on a timeline of 0, 1, 2 or 3 rows check_for_errors returns, does not
\* raise, and leaves no row with the Normal Join note.
C12_ShortTimeline ==
    (CheckEnded /\ MergedRows <= 3) =>
        /\ pc = "to_xlsx"
        /\ \A p \in Positions : timeline[p].Notes # normal_join_note

\* C13: on a timeline of 4 or more rows check_for_errors returns, does not
\* raise, and has written no row beyond the merged rows 0..n-1.
C13_LongTimelineCompletes ==
    (CheckEnded /\ MergedRows >= 4) =>
        /\ pc = "to_xlsx"
        /\ \A p \in Positions : IsMergedRow(timeline[p])

====
